---- MODULE Spec2Model ----
(***************************************************************************)
(* A model of django-cruder: the permission gate of CRUDView               *)
(* (views.py), its GET/POST dispatch and handlers with the routes of       *)
(* crud_urlpatterns (urls.py), the list renderer render_list               *)
(* (templates.py) with search, pagination and action links, and the form   *)
(* renderer render_form with get_field_type (forms.py), the style         *)
(* profiles (frameworks), and the field loops of render_list and           *)
(* detail_view over one record.                                            *)
(*                                                                         *)
(* Python values are encoded as follows.                                   *)
(*   None / a value v      the sequences << >> and << v >>                 *)
(*   a dict                a function whose DOMAIN is the set of its keys  *)
(*   a list of role names  the set of its elements (only membership and    *)
(*                         emptiness are used by the code)                 *)
(*   a str                 the sequence of its characters                  *)
(*   a URL path            the sequence of its tokens: "/" and the segments *)
(*                         between slashes, so that '/contacts/2/edit/' is  *)
(*                         << "/", "contacts", "/", "2", "/", "edit", "/" >> *)
(*   a query string        the dict of its parameters                      *)
(***************************************************************************)
EXTENDS Integers, Sequences, FiniteSets, TLC

VARIABLES
    readonly_mode,   \* CRUDView.readonly_mode
    permissions,     \* CRUDView.permissions: None or dict operation -> roles
    per_page,        \* CRUDView.per_page
    search_fields,   \* CRUDView.search_fields: None or a list of field names
    url_prefix,      \* the url_prefix the view is routed under
    objects,         \* the model's table: pk -> record
    next_pk,         \* the table's auto-increment counter
    gate,            \* the last has_crud_permission call and its result
    response,        \* the last request handled by CRUDView and its outcome
    listing,         \* the last direct render_list call and its result
    typed,           \* the last get_field_type call and its result
    rendered,        \* the last render_form call and its result
    framework,       \* the last get_framework call and its result
    shown            \* the last record whose fields were rendered, and the
                     \* list row and detail entries made of it

vars == <<readonly_mode, permissions, per_page, search_fields, url_prefix,
          objects, next_pk, gate, response, listing, typed, rendered,
          framework, shown>>

forms == <<typed, rendered>>

config == <<readonly_mode, permissions, per_page, search_fields, url_prefix>>

\* the attributes of the view class that has_crud_permission reads from self
view == [readonly_mode |-> readonly_mode, permissions |-> permissions]

----------------------------------------------------------------------------
(* Bounds *)

\* largest primary key the table hands out
MaxPk == 2

\* largest per_page value of a view or a render_list call
MaxPerPage == 2

\* number of records of the query source of a direct render_list call
MaxRows == 3

----------------------------------------------------------------------------
(* Python helpers *)

None == << >>

Some(v) == << v >>

IsNone(x) == x = << >>

\* dict.get(key, default)
DictGet(d, key, default) == IF key \in DOMAIN d THEN d[key] ELSE default

\* the dicts with keys among K and values in V
Dicts(K, V) == UNION { [D -> V] : D \in SUBSET K }

Max(a, b) == IF a >= b THEN a ELSE b

\* math.ceil(a / b) for a >= 0, b >= 1
Ceil(a, b) == (a + b - 1) \div b

----------------------------------------------------------------------------
(* str methods, on sequences of characters or of path tokens *)

\* sub in s
Contains(s, q) ==
    \E i \in 0 .. (Len(s) - Len(q)) : SubSeq(s, i + 1, i + Len(q)) = q

\* s.endswith(suffix)
EndsWith(s, suffix) ==
    Len(s) >= Len(suffix) /\ SubSeq(s, Len(s) - Len(suffix) + 1, Len(s)) = suffix

\* s.startswith(prefix)
StartsWith(s, prefix) ==
    Len(s) >= Len(prefix) /\ SubSeq(s, 1, Len(prefix)) = prefix

\* s.replace(old, new): every non-overlapping occurrence, left to right
RECURSIVE Replace(_, _, _)
Replace(s, old, new) ==
    IF Len(s) < Len(old) THEN s
    ELSE IF StartsWith(s, old)
    THEN new \o Replace(SubSeq(s, Len(old) + 1, Len(s)), old, new)
    ELSE << Head(s) >> \o Replace(Tail(s), old, new)

\* s.split(sep)[0]: the part before the first occurrence of sep
RECURSIVE SplitHead(_, _)
SplitHead(s, sep) ==
    IF s = << >> \/ StartsWith(s, sep) THEN << >>
    ELSE << Head(s) >> \o SplitHead(Tail(s), sep)

\* s.rstrip('/')
RECURSIVE RStrip(_)
RStrip(s) ==
    IF s # << >> /\ s[Len(s)] = "/" THEN RStrip(SubSeq(s, 1, Len(s) - 1)) ELSE s

\* s.split('/'): the parts between the slashes
RECURSIVE Split(_)
Split(s) ==
    IF ~Contains(s, <<"/">>) THEN << s >>
    ELSE << SplitHead(s, <<"/">>) >>
         \o Split(SubSeq(s, Len(SplitHead(s, <<"/">>)) + 2, Len(s)))

\* '/'.join(parts)
RECURSIVE Join(_)
Join(parts) ==
    IF parts = << >> THEN << >>
    ELSE IF Len(parts) = 1 THEN parts[1]
    ELSE parts[1] \o <<"/">> \o Join(Tail(parts))

\* str(pk) of the primary keys that occur in paths
Digits == { ToString(n) : n \in 0 .. MaxPk + 1 }

\* s.isdigit(): not empty and digits only
IsDigit(s) == s # << >> /\ \A i \in DOMAIN s : s[i] \in Digits

----------------------------------------------------------------------------
(* Users, roles, operations *)

Roles == {"admin", "editor"}

Ops == {"C", "R", "U", "D"}

\* request.user: the superuser flag and the names of the user's groups
Users == [is_superuser : BOOLEAN, groups : SUBSET Roles]

\* the values CRUDView.permissions takes: None, or a dict from some of the
\* operations to a (possibly empty) list of role names
PermissionMaps == {None} \cup { Some(d) : d \in Dicts(Ops, SUBSET Roles) }

\* `not self.permissions`: None and the empty dict are both falsy
PermissionsFalsy(p) == IsNone(p) \/ DOMAIN p[1] = {}

\* a faulty variant: the superuser test moved in front of the read-only test
has_crud_permission_superuser_first(self, user, operation) ==
    IF user.is_superuser THEN TRUE
    ELSE IF self.readonly_mode /\ operation \in {"C", "U", "D"} THEN FALSE
    ELSE IF PermissionsFalsy(self.permissions) THEN TRUE
    ELSE LET required_roles == DictGet(self.permissions[1], operation, {}) IN
         IF required_roles = {} THEN TRUE
         ELSE \E role \in required_roles : role \in user.groups

\* a faulty variant: every required role must be held (all instead of any)
has_crud_permission_all_roles(self, user, operation) ==
    IF self.readonly_mode /\ operation \in {"C", "U", "D"} THEN FALSE
    ELSE IF PermissionsFalsy(self.permissions) THEN TRUE
    ELSE LET required_roles == DictGet(self.permissions[1], operation, {}) IN
         IF required_roles = {} THEN TRUE
         ELSE IF user.is_superuser THEN TRUE
         ELSE \A role \in required_roles : role \in user.groups

\* a faulty variant: an operation without an entry is denied (fail-closed)
has_crud_permission_fail_closed(self, user, operation) ==
    IF self.readonly_mode /\ operation \in {"C", "U", "D"} THEN FALSE
    ELSE IF PermissionsFalsy(self.permissions) THEN TRUE
    ELSE IF operation \notin DOMAIN self.permissions[1] THEN user.is_superuser
    ELSE LET required_roles == self.permissions[1][operation] IN
         IF required_roles = {} THEN TRUE
         ELSE IF user.is_superuser THEN TRUE
         ELSE \E role \in required_roles : role \in user.groups

\* a faulty variant: the superuser test is missing
has_crud_permission_no_superuser(self, user, operation) ==
    IF self.readonly_mode /\ operation \in {"C", "U", "D"} THEN FALSE
    ELSE IF PermissionsFalsy(self.permissions) THEN TRUE
    ELSE LET required_roles == DictGet(self.permissions[1], operation, {}) IN
         IF required_roles = {} THEN TRUE
         ELSE \E role \in required_roles : role \in user.groups

\* CRUDView.has_crud_permission
has_crud_permission(self, user, operation) ==
    IF self.readonly_mode /\ operation \in {"C", "U", "D"} THEN FALSE
    ELSE IF PermissionsFalsy(self.permissions) THEN TRUE
    ELSE LET required_roles == DictGet(self.permissions[1], operation, {}) IN
         IF required_roles = {} THEN TRUE
         ELSE IF user.is_superuser THEN TRUE
         ELSE \E role \in required_roles : role \in user.groups

----------------------------------------------------------------------------
(* The model class: records with two text fields, stored by primary key *)

\* the columns of the model besides its id
ModelFields == <<"name", "email">>

\* the field values of the records in the table
Records ==
    { [name |-> <<"A", "b">>, email |-> <<"a">>],
      [name |-> <<"b">>,      email |-> << >>],
      [name |-> <<"b">>,      email |-> <<"a">>] }

\* a stored object: its pk and its field values
Obj(pk, rec) == [pk |-> pk, name |-> rec.name, email |-> rec.email]

\* model_class.objects.all(), in primary-key order
RECURSIVE AllFrom(_, _)
AllFrom(table, pk) ==
    IF pk > Max(MaxPk, MaxRows) THEN << >>
    ELSE (IF pk \in DOMAIN table THEN << Obj(pk, table[pk]) >> ELSE << >>)
         \o AllFrom(table, pk + 1)

objects_all == AllFrom(objects, 1)

\* str.lower() on one character
LowerChar(c) == CASE c = "A" -> "a" [] c = "B" -> "b" [] OTHER -> c

Lower(s) == [i \in DOMAIN s |-> LowerChar(s[i])]

\* the lookup field__icontains=q on one object
icontains(obj, field, q) == Contains(Lower(obj[field]), Lower(q))

\* Q(): the empty condition; a condition is the set of its OR-ed lookups
Q == {}

\* a faulty variant: |= replaced by &=, every lookup must match
QMatches_and(obj, q_objects) ==
    \A lookup \in q_objects : icontains(obj, lookup.field, lookup.query)

\* an object satisfies the OR of the lookups
QMatches(obj, q_objects) ==
    \E lookup \in q_objects : icontains(obj, lookup.field, lookup.query)

\* the loop `for field in search_fields: q_objects |= Q(field__icontains=...)`
RECURSIVE BuildQ(_, _, _)
BuildQ(q_objects, fields, search_query) ==
    IF fields = << >> THEN q_objects
    ELSE BuildQ(q_objects \cup {[field |-> Head(fields), query |-> search_query]},
                Tail(fields), search_query)

\* queryset.filter(q_objects): the matching objects, once each, in order
RECURSIVE Filter(_, _)
Filter(queryset, q_objects) ==
    IF queryset = << >> THEN << >>
    ELSE (IF QMatches(Head(queryset), q_objects) THEN << Head(queryset) >> ELSE << >>)
         \o Filter(Tail(queryset), q_objects)

----------------------------------------------------------------------------
(* django.core.paginator.Paginator as render_list uses it: orphans = 0,      *)
(* allow_empty_first_page = True                                             *)

\* Paginator.num_pages: hits = max(1, count - orphans); ceil(hits / per_page)
PaginatorNumPages(count, pp) == Ceil(Max(1, count), pp)

\* a faulty variant: EmptyPage is handled like PageNotAnInteger
PaginatorGetPageNumber_first(count, pp, page) ==
    IF IsNone(page) THEN 1
    ELSE IF page[1] < 1 THEN 1
    ELSE IF page[1] > PaginatorNumPages(count, pp) THEN 1
    ELSE page[1]

\* Paginator.get_page: PageNotAnInteger -> 1, EmptyPage (a number below 1 or
\* above num_pages) -> num_pages.  page is None for a value int() rejects.
PaginatorGetPageNumber(count, pp, page) ==
    IF IsNone(page) THEN 1
    ELSE IF page[1] < 1 THEN PaginatorNumPages(count, pp)
    ELSE IF page[1] > PaginatorNumPages(count, pp) THEN PaginatorNumPages(count, pp)
    ELSE page[1]

\* a faulty variant: the slice ends one record late
PaginatorPage_overlap(object_list, pp, number) ==
    LET bottom == (number - 1) * pp
        top    == IF bottom + pp + 1 >= Len(object_list) THEN Len(object_list)
                  ELSE bottom + pp + 1
    IN  SubSeq(object_list, bottom + 1, top)

\* Paginator.page: object_list[bottom:top]
PaginatorPage(object_list, pp, number) ==
    LET bottom == (number - 1) * pp
        top    == IF bottom + pp >= Len(object_list) THEN Len(object_list)
                  ELSE bottom + pp
    IN  SubSeq(object_list, bottom + 1, top)

\* Page.start_index
PageStartIndex(count, pp, number) ==
    IF count = 0 THEN 0 ELSE pp * (number - 1) + 1

\* a faulty variant: the last page is taken to be full
PageEndIndex_full_page(count, pp, number) == number * pp

\* Page.end_index
PageEndIndex(count, pp, number) ==
    IF number = PaginatorNumPages(count, pp) THEN count ELSE number * pp

\* Page.has_previous, Page.has_next, Page.has_other_pages
PageHasPrevious(number) == number > 1

PageHasNext(count, pp, number) == number < PaginatorNumPages(count, pp)

PageHasOtherPages(count, pp, number) ==
    PageHasPrevious(number) \/ PageHasNext(count, pp, number)

----------------------------------------------------------------------------
(* generate_pagination_html (templates.py): the strip is the sequence of    *)
(* its <li> entries                                                         *)

\* href="?page={num}": a query string is the dict of its parameters
PageHref(num) == [param \in {"page"} |-> num]

\* <li class="page-item"><a class="page-link" href="?page={num}">label</a>
PageLink(label, num) ==
    [tag |-> "a", class |-> "page-item", label |-> label, href |-> Some(PageHref(num))]

\* <li class="page-item disabled"><span class="page-link">label</span>
PageDisabled(label) ==
    [tag |-> "span", class |-> "page-item disabled", label |-> label, href |-> None]

\* <li class="page-item active"><span class="page-link">{num}</span>
PageActive(num) ==
    [tag |-> "span", class |-> "page-item active", label |-> ToString(num), href |-> None]

\* a faulty variant: Next is offered on the last page and withheld one early
generate_pagination_html_next_late(count, pp, number) ==
    IF ~PageHasOtherPages(count, pp, number) THEN << >>
    ELSE << IF PageHasPrevious(number)
            THEN PageLink("Previous", number - 1) ELSE PageDisabled("Previous") >>
         \o [num \in 1 .. PaginatorNumPages(count, pp) |->
               IF num = number THEN PageActive(num) ELSE PageLink(ToString(num), num)]
         \o << IF number + 1 >= PaginatorNumPages(count, pp)
               THEN PageLink("Next", number + 1) ELSE PageDisabled("Next") >>

\* generate_pagination_html(page_obj, framework_class)
generate_pagination_html(count, pp, number) ==
    IF ~PageHasOtherPages(count, pp, number) THEN << >>
    ELSE << IF PageHasPrevious(number)
            THEN PageLink("Previous", number - 1) ELSE PageDisabled("Previous") >>
         \o [num \in 1 .. PaginatorNumPages(count, pp) |->
               IF num = number THEN PageActive(num) ELSE PageLink(ToString(num), num)]
         \o << IF PageHasNext(count, pp, number)
               THEN PageLink("Next", number + 1) ELSE PageDisabled("Next") >>


----------------------------------------------------------------------------
(* render_list (templates.py) *)

\* the keys of the permission snapshot list_view passes
SnapshotKeys == {"can_create", "can_read", "can_update", "can_delete"}

\* a list argument that is None or empty
ListFalsy(l) == IsNone(l) \/ l[1] = << >>

\* a faulty variant: the flag is read negated
ShowControl_negated(perms, key) ==
    (IsNone(perms) \/ DOMAIN perms[1] = {}) \/ ~DictGet(perms[1], key, TRUE)

\* `not permissions or permissions.get(key, True)`
ShowControl(perms, key) ==
    (IsNone(perms) \/ DOMAIN perms[1] = {}) \/ DictGet(perms[1], key, TRUE)

\* the target of a link: f"{base_url}{obj_id}/edit/" when base_url is given,
\* f"?pk={obj_id}&action=edit" otherwise; pk is None for the create link
Url(base_url, pk, action) == [base_url |-> base_url, pk |-> pk, action |-> action]

Link(label, url) == [tag |-> "a", label |-> label, href |-> Some(url)]

NoActions == [tag |-> "span", label |-> "No actions available", href |-> None]

\* what reading one attribute of a record gives: a value of some kind ("str"
\* with its text, "bool" with its truth in flag, "NoneType", "datetime" with
\* the text strftime makes of it and in flag whether strftime succeeds), or
\* an exception raised by the read ("AttributeError" when there is no such
\* attribute, "Exception" for any other)
Attr(kind, text, flag) == [kind |-> kind, text |-> text, flag |-> flag]

Raised(read) == read.kind \in {"AttributeError", "Exception"}

\* getattr(obj, field_name) on a stored record: its columns hold text
getattr(obj, field_name) ==
    IF field_name \in DOMAIN obj THEN Attr("str", obj[field_name], TRUE)
    ELSE Attr("AttributeError", << >>, FALSE)

\* a faulty variant: None is printed as text instead of the placeholder
list_cell_none_as_text(read) ==
    IF Raised(read) THEN <<"-">>
    ELSE IF read.kind = "datetime"
    THEN (IF read.flag THEN read.text ELSE <<"-">>)
    ELSE IF read.kind = "bool"
    THEN (IF read.flag THEN <<"Y", "e", "s">> ELSE <<"N", "o">>)
    ELSE IF read.kind = "NoneType" THEN <<"N", "o", "n", "e">>
    ELSE read.text

\* the cell render_list makes of one attribute read: the try block formats
\* the value, the except clause appends the placeholder '-'
list_cell(read) ==
    IF Raised(read) THEN <<"-">>
    ELSE IF read.kind = "datetime"
    THEN (IF read.flag THEN read.text ELSE <<"-">>)
    ELSE IF read.kind = "bool"
    THEN (IF read.flag THEN <<"Y", "e", "s">> ELSE <<"N", "o">>)
    ELSE IF read.kind = "NoneType" THEN <<"-">>
    ELSE read.text

\* the value detail_view and delete_view make of one attribute read, taken
\* with getattr(obj, field_name, None), whose default replaces an
\* AttributeError: None when the except clause skips the field (continue)
detail_value(read) ==
    LET field_value == IF read.kind = "AttributeError"
                       THEN Attr("NoneType", << >>, FALSE) ELSE read
    IN  IF Raised(field_value) THEN None
        ELSE IF field_value.kind = "datetime"
        THEN (IF field_value.flag THEN Some(field_value.text) ELSE None)
        ELSE IF field_value.kind = "bool"
        THEN Some(IF field_value.flag THEN <<"Y", "e", "s">> ELSE <<"N", "o">>)
        ELSE IF field_value.kind = "NoneType"
        THEN Some(<<"N", "o", "t", " ", "s", "e", "t">>)
        ELSE Some(field_value.text)

\* the fields_data loop of detail_view and delete_view over the model's
\* fields, each given with what reading it gives; the loop leaves out 'id'
\* (and the names ending in '_set', of which the model has none)
RECURSIVE fields_data(_)
fields_data(fields) ==
    IF fields = << >> THEN << >>
    ELSE LET field == Head(fields)
             value == detail_value(field.read)
         IN  (IF field.name = "id" \/ IsNone(value) THEN << >>
              ELSE << [name |-> field.name, value |-> value[1]] >>)
             \o fields_data(Tail(fields))

\* the cells the row loop of render_list makes of the same fields
row_cells(fields) == [i \in 1 .. Len(fields) |-> list_cell(fields[i].read)]

\* the cell of one field of a stored record: str(value), or '-' when getattr
\* raises
Cell(obj, field_name) == list_cell(getattr(obj, field_name))

\* the action_buttons list of one row
ActionButtons(obj, base_url, perms) ==
    (IF ShowControl(perms, "can_read")
       THEN << Link("View", Url(base_url, Some(obj.pk), "view")) >> ELSE << >>)
    \o (IF ShowControl(perms, "can_update")
       THEN << Link("Edit", Url(base_url, Some(obj.pk), "edit")) >> ELSE << >>)
    \o (IF ShowControl(perms, "can_delete")
       THEN << Link("Delete", Url(base_url, Some(obj.pk), "delete")) >> ELSE << >>)

\* actions_html: the button group, or the placeholder when there is no button
ActionsHtml(action_buttons) ==
    IF action_buttons # << >> THEN action_buttons ELSE << NoActions >>

\* one table row: a cell per field and the actions cell
Row(obj, fields, base_url, perms) ==
    [pk      |-> obj.pk,
     cells   |-> [i \in 1 .. Len(fields) |-> Cell(obj, fields[i])],
     actions |-> ActionsHtml(ActionButtons(obj, base_url, perms))]

\* add_button: the Add New link, or nothing
AddButton(base_url, perms) ==
    IF ShowControl(perms, "can_create")
    THEN << Link("Add New", Url(base_url, None, "create")) >> ELSE << >>

\* the search filter of render_list: the backward-compatible search_field is
\* used when search_fields is empty, and the filter is applied only when
\* there is a field and a non-empty query
SearchFields(fields_list, search_field) ==
    IF ~IsNone(search_field) /\ ListFalsy(fields_list)
    THEN Some(<< search_field[1] >>) ELSE fields_list

ApplySearch(queryset, fields_list, search_query) ==
    IF ~ListFalsy(fields_list) /\ search_query # << >>
    THEN Filter(queryset, BuildQ(Q, fields_list[1], search_query))
    ELSE queryset

\* render_list: args is the record of its arguments; the result holds the
\* parts of the returned dict and of the generated HTML
render_list(args) ==
    LET queryset == IF IsNone(args.queryset) THEN objects_all ELSE args.queryset[1]
        sfields  == SearchFields(args.search_fields, args.search_field)
        filtered == ApplySearch(queryset, sfields, args.search_query)
        fields   == IF IsNone(args.fields) THEN ModelFields ELSE args.fields[1]
        count    == Len(filtered)
        number   == PaginatorGetPageNumber(count, args.per_page, args.page)
        page_obj == PaginatorPage(filtered, args.per_page, number)
    IN  [total_count |-> count,
         num_pages   |-> PaginatorNumPages(count, args.per_page),
         number      |-> number,
         object_list |-> page_obj,
         headers     |-> fields \o <<"Actions">>,
         rows        |-> [i \in 1 .. Len(page_obj) |->
                            Row(page_obj[i], fields, args.base_url, args.permissions)],
         paginator   |-> [object_list |-> filtered, per_page |-> args.per_page],
         pagination  |-> generate_pagination_html(count, args.per_page, number),
         add_button  |-> AddButton(args.base_url, args.permissions),
         search_form |-> ~ListFalsy(sfields),
         start_index |-> PageStartIndex(count, args.per_page, number),
         end_index   |-> PageEndIndex(count, args.per_page, number)]


----------------------------------------------------------------------------
(* forms.py and the style profiles (frameworks) *)

\* Python values of instance attributes: None, a bool or a str, each with
\* its type and its str() text
PyNone == [type |-> "NoneType", repr |-> "None"]

PyBool(b) == [type |-> "bool", repr |-> IF b THEN "True" ELSE "False"]

PyStr(text) == [type |-> "str", repr |-> text]

\* the truth value of a Python value
Truthy(v) ==
    CASE v.type = "bool" -> v.repr = "True"
      [] v.type = "str" -> v.repr # ""
      [] OTHER -> FALSE

\* a or b
Or(a, b) == IF Truthy(a) THEN a ELSE b

\* str(v)
Str(v) == v.repr

\* the classes of django.db.models fields: the classes of the type table
\* and some that are not in it
TableClasses ==
    { "CharField", "TextField", "EmailField", "URLField", "IntegerField",
      "PositiveIntegerField", "FloatField", "DecimalField", "BooleanField",
      "DateField", "DateTimeField", "TimeField", "FileField", "ImageField",
      "ForeignKey", "ManyToManyField" }

FieldClasses ==
    TableClasses \cup { "SlugField", "BigIntegerField", "OneToOneField",
                        "UUIDField", "JSONField", "BinaryField", "DurationField" }

\* the class a field class derives from (django.db.models.fields)
Base(cls) ==
    CASE cls \in {"EmailField", "URLField", "SlugField"} -> "CharField"
      [] cls \in {"PositiveIntegerField", "BigIntegerField"} -> "IntegerField"
      [] cls = "DateTimeField" -> "DateField"
      [] cls = "ImageField" -> "FileField"
      [] cls = "OneToOneField" -> "ForeignKey"
      [] OTHER -> "Field"

\* isinstance(model_field, field_class), on the class of the field
RECURSIVE isinstance(_, _)
isinstance(cls, field_class) ==
    IF cls = field_class THEN TRUE
    ELSE IF cls = "Field" THEN FALSE
    ELSE isinstance(Base(cls), field_class)

\* field_mapping, in the insertion order in which the dict is scanned
field_mapping ==
    << <<"CharField", "text">>,
       <<"TextField", "textarea">>,
       <<"EmailField", "email">>,
       <<"URLField", "url">>,
       <<"IntegerField", "number">>,
       <<"PositiveIntegerField", "number">>,
       <<"FloatField", "number">>,
       <<"DecimalField", "number">>,
       <<"BooleanField", "checkbox">>,
       <<"DateField", "date">>,
       <<"DateTimeField", "datetime-local">>,
       <<"TimeField", "time">>,
       <<"FileField", "file">>,
       <<"ImageField", "file">>,
       <<"ForeignKey", "select">>,
       <<"ManyToManyField", "select">> >>

\* the loop over field_mapping.items() from entry i on, and the fallback
RECURSIVE ScanMapping(_, _)
ScanMapping(model_field, i) ==
    IF i > Len(field_mapping) THEN "text"
    ELSE IF isinstance(model_field.cls, field_mapping[i][1]) THEN field_mapping[i][2]
    ELSE ScanMapping(model_field, i + 1)

\* a faulty variant: the test for a boolean field with choices is missing
get_field_type_table_only(model_field) ==
    ScanMapping(model_field, 1)

\* get_field_type: a model field is the record of its name, its class and
\* its choices (None, or a list of pairs)
get_field_type(model_field) ==
    IF isinstance(model_field.cls, "BooleanField") /\ ~ListFalsy(model_field.choices)
    THEN "select"
    ELSE ScanMapping(model_field, 1)

\* FRAMEWORKS: the registry of style profiles
FRAMEWORKS ==
    [name \in {Some("bootstrap"), Some("bootstrap5"), Some("bulma")} |->
        IF name = Some("bulma") THEN "BulmaFramework" ELSE "BootstrapFramework"]

\* a faulty variant: an unknown name gives the abstract base profile
get_framework_base_default(name) == DictGet(FRAMEWORKS, name, "BaseFramework")

\* get_framework(name)
get_framework(name) == DictGet(FRAMEWORKS, name, "BootstrapFramework")

\* <option value="..." selected>label</option>
Option(value, label, selected) ==
    [value |-> value, label |-> label, selected |-> selected]

\* the control get_form_field_html produces for a field
Control(field, field_type, field_value, options) ==
    [name      |-> field.name,
     control   |-> IF field_type \in {"textarea", "select", "checkbox"}
                   THEN field_type ELSE "input",
     type      |-> field_type,
     value     |-> IF field_type \in {"select", "checkbox"} THEN "" ELSE Str(field_value),
     checked   |-> field_type = "checkbox" /\ Truthy(field_value),
     options   |-> IF field_type = "select" THEN options ELSE << >>,
     label_for |-> field_type # "checkbox"]

\* BootstrapFramework.get_form_field_html
BootstrapFramework_get_form_field_html(field, field_type) ==
    LET field_value  == Or(field.value, PyStr(""))
        options_html ==
            IF field.name = "active_client"
            THEN << Option("", "Choose...", FALSE),
                    Option("True", "Yes", Str(field_value) = "True"),
                    Option("False", "No", Str(field_value) = "False") >>
            ELSE << Option("", "Choose...", FALSE) >>
    IN  Control(field, field_type, field_value, options_html)

\* BulmaFramework.get_form_field_html: its select has no option
BulmaFramework_get_form_field_html(field, field_type) ==
    LET field_value == Or(field.value, PyStr(""))
    IN  Control(field, field_type, field_value, << >>)

\* framework_class.get_form_field_html
get_form_field_html(framework_class, field, field_type) ==
    IF framework_class = "BulmaFramework"
    THEN BulmaFramework_get_form_field_html(field, field_type)
    ELSE BootstrapFramework_get_form_field_html(field, field_type)

\* the widget create_model_form gives the form field active_client
TriStateSelect ==
    [widget |-> "Select",
     choices |-> << <<"", "Choose...">>, <<"True", "Yes">>, <<"False", "No">> >>]

DefaultWidget == [widget |-> "default", choices |-> << >>]

\* create_model_form: the fields of the form class, the model's fields
\* without the excluded ones; a model class is the sequence of its fields
create_model_form(model_class, exclude_fields) ==
    LET exclude == IF ListFalsy(exclude_fields)
                   THEN {"id", "created_at", "updated_at"}
                   ELSE { exclude_fields[1][i] : i \in DOMAIN exclude_fields[1] }
        Kept(model_field) == model_field.name \notin exclude
        FormField(model_field) ==
            [name   |-> model_field.name,
             model_field |-> model_field,
             widget |-> IF model_field.name = "active_client"
                        THEN TriStateSelect ELSE DefaultWidget]
        kept == SelectSeq(model_class, Kept)
    IN  [i \in DOMAIN kept |-> FormField(kept[i])]

\* the body of the loop of render_form for one form field
render_form_field(form_field, instance, framework_class) ==
    LET model_field == form_field.model_field
        field_type  == get_field_type(model_field)
        attribute   == IF IsNone(instance) THEN PyStr("")
                       ELSE DictGet(instance[1], form_field.name, PyStr(""))
        field_value == IF attribute = PyNone THEN PyStr("") ELSE attribute
        field_obj   == [name |-> form_field.name, value |-> field_value]
    IN  get_form_field_html(framework_class, field_obj, field_type)

\* render_form: args is the record of its arguments; the result holds the
\* controls of the form and the label of its submit button
render_form(args) ==
    LET framework_class == get_framework(args.framework)
        form_fields     == create_model_form(args.model_class, args.exclude_fields)
    IN  [fields |-> [i \in DOMAIN form_fields |->
                       render_form_field(form_fields[i], args.instance, framework_class)],
         method |-> args.method,
         submit |-> IF IsNone(args.instance) THEN "Create" ELSE "Update"]

----------------------------------------------------------------------------
(* CRUDView (views.py): requests, handlers, dispatch *)

Actions == {"list", "create", "edit", "view", "delete", "other"}

\* a call that passes no action keyword, as the list route of
\* crud_urlpatterns does: the handler's own default applies
NoAction == "(not passed)"

\* the value of a keyword argument with a default
Default(arg, default) == IF arg = NoAction THEN default ELSE arg

\* the url_prefix values a view is routed under
Prefixes == { <<"contacts">>, <<"app", "/", "contacts">> }

\* the list URL of a prefix: path(f'{url_prefix}/', ...)
ListPath(prefix) == <<"/">> \o prefix \o <<"/">>

\* request.path of a request for (pk, action): the route crud_urlpatterns
\* generates for it; a call with another action and no pk comes from a route
\* of the project's own and is taken at the list path
RoutePath(prefix, pk, action) ==
    ListPath(prefix) \o
    (CASE action = "create" -> <<"create", "/">>
       [] action = "view" /\ ~IsNone(pk) -> <<ToString(pk[1]), "/">>
       [] action \in {"edit", "delete"} /\ ~IsNone(pk) ->
            <<ToString(pk[1]), "/", action, "/">>
       [] OTHER -> << >>)

\* a request.path for direct calls of render_list
ViewPath == ListPath(<<"contacts">>)

\* request.GET: the dict of the parameters page and search that are present
QueryDict(page, search) ==
    [param \in (IF IsNone(page) THEN {} ELSE {"page"})
                \cup (IF IsNone(search) THEN {} ELSE {"search"}) |->
        IF param = "page" THEN page[1] ELSE search[1]]

\* the form bodies posted: the last one fails validation (name is required)
FormInputs ==
    { [name |-> <<"A", "b">>, email |-> <<"a">>],
      [name |-> <<"b">>,      email |-> << >>],
      [name |-> << >>,        email |-> <<"a">>] }

\* a POST without form fields
EmptyForm == [name |-> << >>, email |-> << >>]

\* form.is_valid() of the ModelForm: the required field is present
is_valid(form) == form.name # << >>

\* a truthy pk: neither None nor 0
PkTruthy(pk) == ~IsNone(pk) /\ pk[1] # 0

\* what a handler produces: the response and the table it leaves behind
Result(handler, status, template, table, counter, message) ==
    [handler  |-> handler,
     status   |-> status,
     template |-> template,
     objects  |-> table,
     next_pk  |-> counter,
     message  |-> message,
     errors   |-> FALSE,
     redirect |-> None,
     list     |-> None,
     fields_data |-> None,
     context_permissions |-> None]

\* raise PermissionDenied: no handler runs
PermissionDenied == Result("none", 403, "none", objects, next_pk, None)

\* get_object_or_404 found nothing: Http404 leaves the handler at once
Http404(handler) == Result(handler, 404, "none", objects, next_pk, None)

\* a faulty variant: can_update and can_delete ignore the read-only flag
permissions_context_ignore_readonly(user) ==
    [can_create |-> has_crud_permission(view, user, "C"),
     can_read   |-> has_crud_permission(view, user, "R"),
     can_update |-> has_crud_permission(view, user, "U") \/ readonly_mode,
     can_delete |-> has_crud_permission(view, user, "D") \/ readonly_mode]

\* a faulty variant: can_update is computed from the R check
permissions_context_update_as_read(user) ==
    [can_create |-> has_crud_permission(view, user, "C"),
     can_read   |-> has_crud_permission(view, user, "R"),
     can_update |-> has_crud_permission(view, user, "R"),
     can_delete |-> has_crud_permission(view, user, "D")]

\* the permission snapshot list_view computes
permissions_context(user) ==
    [can_create |-> has_crud_permission(view, user, "C"),
     can_read   |-> has_crud_permission(view, user, "R"),
     can_update |-> has_crud_permission(view, user, "U"),
     can_delete |-> has_crud_permission(view, user, "D")]

\* the arguments list_view passes to render_list
list_view_args(request) ==
    [queryset      |-> None,
     fields        |-> None,
     per_page      |-> per_page,
     page          |-> Some(DictGet(request.GET, "page", 1)),
     search_fields |-> search_fields,
     search_field  |-> None,
     search_query  |-> DictGet(request.GET, "search", << >>),
     base_url      |-> Some(IF EndsWith(request.path, <<"/">>) THEN request.path
                            ELSE request.path \o <<"/">>),
     permissions   |-> Some(permissions_context(request.user))]

list_view(request) ==
    [Result("list_view", 200, "cruder/list.html", objects, next_pk, None)
        EXCEPT !.list = Some(render_list(list_view_args(request))),
               !.context_permissions = Some(permissions_context(request.user))]

create_view(request) ==
    Result("create_view", 200, "cruder/form.html", objects, next_pk, None)

\* the list_url create_post and edit_post derive from request.path
list_url(current_path) ==
    IF Contains(current_path, <<"/", "create", "/">>)
    THEN Replace(current_path, <<"/", "create", "/">>, <<"/">>)
    ELSE IF EndsWith(current_path, <<"/", "create">>)
    THEN Replace(current_path, <<"/", "create">>, <<"/">>)
    ELSE IF Contains(current_path, <<"/", "edit", "/">>)
    THEN SplitHead(current_path, <<"/", "edit", "/">>) \o <<"/">>
    ELSE IF Contains(current_path, <<"/", "delete", "/">>)
    THEN SplitHead(current_path, <<"/", "delete", "/">>) \o <<"/">>
    ELSE IF EndsWith(current_path, <<"/">>) THEN current_path
    ELSE current_path \o <<"/">>

\* the list_url delete_post derives from request.path
delete_list_url(current_path) ==
    IF Contains(current_path, <<"/", "delete", "/">>)
    THEN LET base_path  == SplitHead(current_path, <<"/", "delete", "/">>)
             path_parts == Split(RStrip(base_path))
         IN  IF IsDigit(path_parts[Len(path_parts)])
             THEN Join(SubSeq(path_parts, 1, Len(path_parts) - 1)) \o <<"/">>
             ELSE base_path \o <<"/">>
    ELSE IF EndsWith(current_path, <<"/">>) THEN current_path
    ELSE current_path \o <<"/">>

create_post(request) ==
    IF is_valid(request.form)
    THEN [Result("create_post", 302, "none",
                 [pk \in DOMAIN objects \cup {next_pk} |->
                     IF pk = next_pk THEN request.form ELSE objects[pk]],
                 next_pk + 1, Some("created"))
            EXCEPT !.redirect = Some(list_url(request.path))]
    ELSE [Result("create_post", 200, "cruder/form.html", objects, next_pk, None)
            EXCEPT !.errors = TRUE]

edit_view(request, pk) ==
    IF pk \notin DOMAIN objects THEN Http404("edit_view")
    ELSE Result("edit_view", 200, "cruder/form.html", objects, next_pk, None)

\* a faulty variant: the form is saved before it is validated
edit_post_save_first(request, pk) ==
    IF pk \notin DOMAIN objects THEN Http404("edit_post")
    ELSE IF is_valid(request.form)
    THEN [Result("edit_post", 302, "none",
                 [objects EXCEPT ![pk] = request.form], next_pk, Some("updated"))
            EXCEPT !.redirect = Some(list_url(request.path))]
    ELSE [Result("edit_post", 200, "cruder/form.html",
                 [objects EXCEPT ![pk] = request.form], next_pk, None)
            EXCEPT !.errors = TRUE]

edit_post(request, pk) ==
    IF pk \notin DOMAIN objects THEN Http404("edit_post")
    ELSE IF is_valid(request.form)
    THEN [Result("edit_post", 302, "none",
                 [objects EXCEPT ![pk] = request.form], next_pk, Some("updated"))
            EXCEPT !.redirect = Some(list_url(request.path))]
    ELSE [Result("edit_post", 200, "cruder/form.html", objects, next_pk, None)
            EXCEPT !.errors = TRUE]

\* model._meta.get_fields() of the stored model, each with what reading
\* it from the record gives
get_fields(obj) ==
    << [name |-> "id", read |-> Attr("str", <<ToString(obj.pk)>>, TRUE)] >> \o
    [i \in 1 .. Len(ModelFields) |->
        [name |-> ModelFields[i], read |-> getattr(obj, ModelFields[i])]]

detail_view(request, pk) ==
    IF pk \notin DOMAIN objects THEN Http404("detail_view")
    ELSE [Result("detail_view", 200, "cruder/detail.html", objects, next_pk, None)
            EXCEPT !.fields_data =
                Some(fields_data(get_fields(Obj(pk, objects[pk]))))]

delete_view(request, pk) ==
    IF pk \notin DOMAIN objects THEN Http404("delete_view")
    ELSE [Result("delete_view", 200, "cruder/delete.html", objects, next_pk, None)
            EXCEPT !.fields_data =
                Some(fields_data(get_fields(Obj(pk, objects[pk]))))]

delete_post(request, pk) ==
    IF pk \notin DOMAIN objects THEN Http404("delete_post")
    ELSE [Result("delete_post", 302, "none",
                 [k \in DOMAIN objects \ {pk} |-> objects[k]],
                 next_pk, Some("deleted"))
            EXCEPT !.redirect = Some(delete_list_url(request.path))]

\* a faulty variant: the GET on the delete endpoint deletes at once
get_delete_on_get(request) ==
    LET user == request.user  pk == request.pk
        action == Default(request.action, "list") IN
    IF action = "list" THEN
        IF ~has_crud_permission(view, user, "R") THEN PermissionDenied
        ELSE list_view(request)
    ELSE IF action = "create" THEN
        IF ~has_crud_permission(view, user, "C") THEN PermissionDenied
        ELSE create_view(request)
    ELSE IF action = "edit" /\ PkTruthy(pk) THEN
        IF ~has_crud_permission(view, user, "U") THEN PermissionDenied
        ELSE edit_view(request, pk[1])
    ELSE IF action = "view" /\ PkTruthy(pk) THEN
        IF ~has_crud_permission(view, user, "R") THEN PermissionDenied
        ELSE detail_view(request, pk[1])
    ELSE IF action = "delete" /\ PkTruthy(pk) THEN
        IF ~has_crud_permission(view, user, "D") THEN PermissionDenied
        ELSE delete_post(request, pk[1])
    ELSE list_view(request)

\* CRUDView.get
get(request) ==
    LET user == request.user  pk == request.pk
        action == Default(request.action, "list") IN
    IF action = "list" THEN
        IF ~has_crud_permission(view, user, "R") THEN PermissionDenied
        ELSE list_view(request)
    ELSE IF action = "create" THEN
        IF ~has_crud_permission(view, user, "C") THEN PermissionDenied
        ELSE create_view(request)
    ELSE IF action = "edit" /\ PkTruthy(pk) THEN
        IF ~has_crud_permission(view, user, "U") THEN PermissionDenied
        ELSE edit_view(request, pk[1])
    ELSE IF action = "view" /\ PkTruthy(pk) THEN
        IF ~has_crud_permission(view, user, "R") THEN PermissionDenied
        ELSE detail_view(request, pk[1])
    ELSE IF action = "delete" /\ PkTruthy(pk) THEN
        IF ~has_crud_permission(view, user, "D") THEN PermissionDenied
        ELSE delete_view(request, pk[1])
    ELSE list_view(request)

\* a faulty variant: the handlers are reached without the permission test
post_unchecked(request) ==
    LET user == request.user  pk == request.pk
        action == Default(request.action, "create") IN
    IF action = "create" THEN create_post(request)
    ELSE IF action = "edit" /\ PkTruthy(pk) THEN edit_post(request, pk[1])
    ELSE IF action = "delete" /\ PkTruthy(pk) THEN delete_post(request, pk[1])
    ELSE list_view(request)

\* CRUDView.post
post(request) ==
    LET user == request.user  pk == request.pk
        action == Default(request.action, "create") IN
    IF action = "create" THEN
        IF ~has_crud_permission(view, user, "C") THEN PermissionDenied
        ELSE create_post(request)
    ELSE IF action = "edit" /\ PkTruthy(pk) THEN
        IF ~has_crud_permission(view, user, "U") THEN PermissionDenied
        ELSE edit_post(request, pk[1])
    ELSE IF action = "delete" /\ PkTruthy(pk) THEN
        IF ~has_crud_permission(view, user, "D") THEN PermissionDenied
        ELSE delete_post(request, pk[1])
    ELSE list_view(request)

\* the (pk, action) arguments of a request: the view called with an action
\* and no pk, routed from the list path with no action, or routed from
\* <int:pk>/, <int:pk>/edit/ or <int:pk>/delete/ with a pk that may be 0 or
\* match no record
RequestArgs ==
    { <<None, a>> : a \in Actions \cup {NoAction} }
    \cup { <<Some(k), a>> : k \in 0 .. MaxPk, a \in {"view", "edit", "delete"} }

\* the page parameter of a request (?page=), absent or 2
PageParams == { None, Some(2) }

\* the GET requests: the page parameter varies on the list action; the users
\* are superusers or not, members of the admin role or not (the only role
\* the permissions of a served view name)
GetRequests ==
    { [method |-> "GET", user |-> u, pk |-> ka[1], action |-> ka[2],
       path |-> RoutePath(url_prefix, ka[1], ka[2]),
       GET |-> QueryDict(p, None), form |-> EmptyForm] :
      u \in [is_superuser : BOOLEAN, groups : SUBSET {"admin"}],
      ka \in RequestArgs, p \in PageParams }

\* the POST requests: the form body varies on the create and edit actions
\* and on the list route, which passes no action
PostRequests ==
    { [method |-> "POST", user |-> u, pk |-> ka[1], action |-> ka[2],
       path |-> RoutePath(url_prefix, ka[1], ka[2]),
       GET |-> QueryDict(None, None), form |-> f] :
      u \in [is_superuser : BOOLEAN, groups : SUBSET {"admin"}],
      ka \in RequestArgs, f \in FormInputs \cup {EmptyForm} }

Varies(request) ==
    /\ request.GET # QueryDict(None, None) => request.action = "list"
    /\ request.method = "GET" => request.form = EmptyForm
    /\ request.method = "POST" =>
         (request.form = EmptyForm <=>
            request.action \notin {"create", "edit", NoAction})

\* the initial value of response: no request handled yet
NoResponse == [request |-> None, result |-> None]

\* the view handles one request at a time; the table takes the handler's
\* writes
Serve(request, result) ==
    /\ response' = [request |-> Some(request), result |-> Some(result)]
    /\ objects' = result.objects
    /\ next_pk' = result.next_pk
    /\ UNCHANGED <<config, framework, shown, forms, gate, listing>>

\* the table hands out primary keys up to MaxPk
Handle(request, result) ==
    /\ result.next_pk <= MaxPk + 1
    /\ Serve(request, result)

Get ==
    /\ response = NoResponse
    /\ \E request \in GetRequests :
        Varies(request) /\ \E result \in {get(request)} : Handle(request, result)

Post ==
    /\ response = NoResponse
    /\ \E request \in PostRequests :
        Varies(request) /\ \E result \in {post(request)} : Handle(request, result)

\* the response is returned to the client
Respond ==
    /\ response # NoResponse
    /\ response' = NoResponse
    /\ UNCHANGED <<config, framework, shown, forms, objects, next_pk, gate, listing>>


----------------------------------------------------------------------------
(* The served view: a CRUDView with some configuration handles GET and POST *)
(* requests.  permission_required is left at its default None, so dispatch  *)
(* passes every request on to get or post.                                   *)

\* the tables with primary keys 1 .. n
Tables(n) == UNION { [1 .. k -> Records] : k \in 0 .. n }

\* the permissions of a served view: None, or a dict that reserves some of
\* the operations to the admin role
ServedPermissionMaps ==
    {None} \cup { Some([op \in D |-> {"admin"}]) : D \in SUBSET Ops }

Init ==
    /\ readonly_mode \in BOOLEAN
    /\ permissions \in ServedPermissionMaps
    /\ per_page \in {1, MaxPerPage}
    /\ search_fields = None
    /\ url_prefix \in Prefixes
    /\ objects \in { t \in Tables(1) : \A pk \in DOMAIN t : is_valid(t[pk]) /\ t[pk] \in FormInputs }
    /\ next_pk = Cardinality(DOMAIN objects) + 1
    /\ gate = None
    /\ response = NoResponse
    /\ listing = None
    /\ typed = None
    /\ rendered = None
    /\ framework = None
    /\ shown = None

Next == Get \/ Post \/ Respond

Spec == Init /\ [][Next]_vars

----------------------------------------------------------------------------
(* The permission gate alone: has_crud_permission is called for every user  *)
(* and operation on a view with any readonly_mode and permissions           *)

InitGate ==
    /\ readonly_mode \in BOOLEAN
    /\ permissions \in PermissionMaps
    /\ per_page = 1
    /\ search_fields = None
    /\ url_prefix = <<"contacts">>
    /\ objects = << >>
    /\ next_pk = 1
    /\ gate = None
    /\ response = NoResponse
    /\ listing = None
    /\ typed = None
    /\ rendered = None
    /\ framework = None
    /\ shown = None

CheckPermission ==
    \E user \in Users, operation \in Ops :
        /\ gate = None
        /\ gate' = Some([user |-> user, operation |-> operation,
                         result |-> has_crud_permission(view, user, operation)])
        /\ UNCHANGED <<config, framework, shown, forms, objects, next_pk, response, listing>>

\* the call returns
GateReturn ==
    /\ gate # None
    /\ gate' = None
    /\ UNCHANGED <<config, framework, shown, forms, objects, next_pk, response, listing>>

NextGate == CheckPermission \/ GateReturn

SpecGate == InitGate /\ [][NextGate]_vars

----------------------------------------------------------------------------
(* The list renderer alone: render_list is called on a table of up to       *)
(* MaxRows records                                                          *)

\* the page argument: None stands for a value int() rejects
PageArgs == {None} \cup { Some(n) : n \in -1 .. MaxRows + 1 }

\* search_fields, search_field and search_query
SearchArgs ==
    { [search_fields |-> sf[1], search_field |-> sf[2], search_query |-> q] :
      sf \in { <<None, None>>,
               <<None, Some("email")>>,
               <<Some(<<"name">>), None>>,
               <<Some(<<"name", "email">>), None>>,
               <<Some(<<"name">>), Some("email")>> },
      q \in { << >>, <<"a">>, <<"B">> } }

NoSearch == [search_fields |-> None, search_field |-> None, search_query |-> << >>]

\* the permission snapshots with all four keys
Snapshots == [SnapshotKeys -> BOOLEAN]

AllDenied == [k \in SnapshotKeys |-> FALSE]

\* the permissions argument: None, the empty dict, a snapshot, or a dict
\* with one key only
PermissionArgs ==
    {None, Some(<< >>), Some([can_read |-> FALSE])}
    \cup { Some(snapshot) : snapshot \in Snapshots }

ListArgs(fields, pp, page, search, base_url, perms) ==
    [queryset      |-> None,
     fields        |-> fields,
     per_page      |-> pp,
     page          |-> page,
     search_fields |-> search.search_fields,
     search_field  |-> search.search_field,
     search_query  |-> search.search_query,
     base_url      |-> base_url,
     permissions   |-> perms]

\* calls that vary the search, the page and the shown fields
SearchCalls ==
    { ListArgs(fields, pp, page, search, None, perms) :
      fields \in {None, Some(<<"email", "missing">>)},
      pp \in 1 .. MaxPerPage, page \in PageArgs, search \in SearchArgs,
      perms \in {None, Some(AllDenied)} }

\* calls that vary the permissions and the base url
PermissionCalls ==
    { ListArgs(None, pp, page, NoSearch, base_url, perms) :
      pp \in 1 .. MaxPerPage, page \in {Some(1), Some(2)},
      base_url \in {None, Some(ViewPath)}, perms \in PermissionArgs }

InitList ==
    /\ readonly_mode = FALSE
    /\ permissions = None
    /\ per_page = 1
    /\ search_fields = None
    /\ url_prefix = <<"contacts">>
    /\ objects \in Tables(MaxRows)
    /\ next_pk = Cardinality(DOMAIN objects) + 1
    /\ gate = None
    /\ response = NoResponse
    /\ listing = None
    /\ typed = None
    /\ rendered = None
    /\ framework = None
    /\ shown = None

RenderList ==
    \E args \in SearchCalls \cup PermissionCalls :
        /\ listing = None
        /\ listing' = Some([args |-> args, result |-> render_list(args)])
        /\ UNCHANGED <<config, framework, shown, forms, objects, next_pk, gate, response>>

\* the call returns
ListReturn ==
    /\ listing # None
    /\ listing' = None
    /\ UNCHANGED <<config, framework, shown, forms, objects, next_pk, gate, response>>

NextList == RenderList \/ ListReturn

SpecList == InitList /\ [][NextList]_vars


----------------------------------------------------------------------------
(* The form renderer alone: get_field_type is called on model fields and    *)
(* render_form on model classes, for create (no instance) and for edit      *)

\* the choices of a field: None, an empty list, or Yes/No pairs
ChoiceArgs ==
    { None, Some(<< >>), Some(<< <<"True", "Yes">>, <<"False", "No">> >>) }

\* the model fields get_field_type is called on
ModelFieldArgs ==
    [name : {"active_client", "field"}, cls : FieldClasses, choices : ChoiceArgs]

\* the boolean fields of the model classes rendered
BooleanFields ==
    [name : {"active_client", "is_active"}, cls : {"BooleanField"}, choices : ChoiceArgs]

\* the other fields of the model classes rendered
OtherFields ==
    { [name |-> "name", cls |-> "CharField", choices |-> None],
      [name |-> "notes", cls |-> "TextField", choices |-> None],
      [name |-> "created_at", cls |-> "DateTimeField", choices |-> None] }

\* the model classes: a boolean field alone or after another field
ModelClasses ==
    { << b >> : b \in BooleanFields }
    \cup { << o, b >> : o \in OtherFields, b \in BooleanFields }

\* the instances of a model class: None, or an object whose boolean field
\* is None, True or False
Instances(model_class) ==
    {None} \cup
    { Some([name \in { model_class[i].name : i \in DOMAIN model_class } |->
              IF name \in {"active_client", "is_active"} THEN v ELSE PyStr("x")]) :
      v \in {PyNone, PyBool(TRUE), PyBool(FALSE)} }

\* the framework argument: the registered names and an unknown one
FrameworkArgs ==
    {Some("bootstrap"), Some("bootstrap5"), Some("bulma"), Some("tailwind")}

\* the names get_framework is called with: those, the empty string and None
NameArgs == FrameworkArgs \cup {Some(""), None}

FormArgs ==
    UNION { { [model_class |-> m, instance |-> inst, framework |-> f,
               exclude_fields |-> None, method |-> "POST"] :
              inst \in Instances(m), f \in FrameworkArgs } : m \in ModelClasses }

InitForm ==
    /\ readonly_mode = FALSE
    /\ permissions = None
    /\ per_page = 1
    /\ search_fields = None
    /\ url_prefix = <<"contacts">>
    /\ objects = << >>
    /\ next_pk = 1
    /\ gate = None
    /\ response = NoResponse
    /\ listing = None
    /\ typed = None
    /\ rendered = None
    /\ framework = None
    /\ shown = None

GetFieldType ==
    \E model_field \in ModelFieldArgs :
        /\ typed = None /\ rendered = None /\ framework = None
        /\ typed' = Some([model_field |-> model_field,
                          result |-> get_field_type(model_field)])
        /\ UNCHANGED <<config, framework, shown, objects, next_pk, gate, response, listing, rendered>>

RenderForm ==
    \E args \in FormArgs :
        /\ typed = None /\ rendered = None /\ framework = None
        /\ rendered' = Some([args |-> args, result |-> render_form(args)])
        /\ UNCHANGED <<config, framework, shown, objects, next_pk, gate, response, listing, typed>>

GetFramework ==
    \E name \in NameArgs :
        /\ typed = None /\ rendered = None /\ framework = None
        /\ framework' = Some([name |-> name, result |-> get_framework(name)])
        /\ UNCHANGED <<config, forms, shown, objects, next_pk, gate, response,
                       listing>>

\* the call returns
FormReturn ==
    /\ typed # None \/ rendered # None \/ framework # None
    /\ typed' = None
    /\ rendered' = None
    /\ framework' = None
    /\ UNCHANGED <<config, shown, objects, next_pk, gate, response, listing>>

NextForm == GetFieldType \/ RenderForm \/ GetFramework \/ FormReturn

SpecForm == InitForm /\ [][NextForm]_vars

----------------------------------------------------------------------------
(* Field rendering: the row loop of render_list and the fields_data loop of *)
(* detail_view applied to one record, whose attributes may hold any kind of *)
(* value or fail to be read.                                                *)

\* what reading an attribute may give
Reads ==
    { Attr("str", <<"a">>, TRUE),
      Attr("bool", << >>, TRUE), Attr("bool", << >>, FALSE),
      Attr("NoneType", << >>, FALSE),
      Attr("datetime", <<"2024-01-01 10:00">>, TRUE),
      Attr("datetime", <<"0001-01-01 00:00">>, FALSE),
      Attr("AttributeError", << >>, FALSE), Attr("Exception", << >>, FALSE) }

\* the fields shown of the record
FieldNames == <<"name", "active", "created_at">>

\* the records: each field with what reading it gives
FieldArgs ==
    { [i \in 1 .. Len(FieldNames) |-> [name |-> FieldNames[i], read |-> r[i]]] :
      r \in [1 .. Len(FieldNames) -> Reads] }

InitFields ==
    /\ readonly_mode = FALSE
    /\ permissions = None
    /\ per_page = 1
    /\ search_fields = None
    /\ url_prefix = <<"contacts">>
    /\ objects = << >>
    /\ next_pk = 1
    /\ gate = None
    /\ response = NoResponse
    /\ listing = None
    /\ typed = None
    /\ rendered = None
    /\ framework = None
    /\ shown = None

\* one record is rendered as a list row and as detail entries
ShowFields ==
    \E fields \in FieldArgs :
        /\ shown = None
        /\ shown' = Some([fields      |-> fields,
                          row         |-> row_cells(fields),
                          fields_data |-> fields_data(fields)])
        /\ UNCHANGED <<config, forms, framework, objects, next_pk, gate,
                       response, listing>>

\* the renderers return
FieldsReturn ==
    /\ shown # None
    /\ shown' = None
    /\ UNCHANGED <<config, forms, framework, objects, next_pk, gate, response,
                   listing>>

NextFields == ShowFields \/ FieldsReturn

SpecFields == InitFields /\ [][NextFields]_vars

----------------------------------------------------------------------------
(* A visitor browses the list of a view with search fields: the list is    *)
(* requested with a search query and a page, and the links of the           *)
(* pagination strip of the page shown are followed                          *)

\* the query strings a visitor types or submits with the search form
BrowseQueries ==
    { QueryDict(p, q) : p \in {None, Some(2)},
                        q \in {None, Some(<<"a">>), Some(<<"B">>)} }

BrowseRequests ==
    { [method |-> "GET", user |-> [is_superuser |-> FALSE, groups |-> {}],
       pk |-> None, action |-> "list",
       path |-> RoutePath(url_prefix, None, "list"),
       GET |-> query, form |-> EmptyForm] : query \in BrowseQueries }

InitBrowse ==
    /\ readonly_mode \in BOOLEAN
    /\ permissions = None
    /\ per_page \in 1 .. MaxPerPage
    /\ search_fields \in {Some(<<"name">>), Some(<<"name", "email">>)}
    /\ url_prefix = <<"contacts">>
    /\ objects \in Tables(MaxRows)
    /\ next_pk = Cardinality(DOMAIN objects) + 1
    /\ gate = None
    /\ response = NoResponse
    /\ listing = None
    /\ typed = None
    /\ rendered = None
    /\ framework = None
    /\ shown = None

Browse ==
    /\ response = NoResponse
    /\ \E request \in BrowseRequests :
        \E result \in {get(request)} : Serve(request, result)

\* a link of the strip is followed: the browser resolves href="?page=N"
\* against the URL of the page shown, which keeps the path and replaces the
\* whole query string
FollowLink ==
    /\ response # NoResponse
    /\ ~IsNone(response.result[1].list)
    /\ \E i \in DOMAIN response.result[1].list[1].pagination :
        LET entry == response.result[1].list[1].pagination[i] IN
        /\ ~IsNone(entry.href)
        /\ \E request \in {[response.request[1] EXCEPT !.GET = entry.href[1]]} :
            \E result \in {get(request)} : Serve(request, result)

NextBrowse == Browse \/ FollowLink \/ Respond

SpecBrowse == InitBrowse /\ [][NextBrowse]_vars


----------------------------------------------------------------------------
(* Claims *)

WriteOps == {"C", "U", "D"}

\* C1: with readonly_mode true has_crud_permission returns False for C, U and
\* D for every user and every permissions map, and its answer for R is the
\* answer it gives with readonly_mode false.
C1_ReadonlyDeniesWrites ==
    gate # None =>
        LET call == gate[1] IN
        /\ (readonly_mode /\ call.operation \in WriteOps) => call.result = FALSE
        /\ call.operation = "R" =>
             call.result = has_crud_permission(
                 [view EXCEPT !.readonly_mode = ~readonly_mode], call.user, "R")

\* a superuser in the admin group, with admin listed for D, is denied D
C1_Witness ==
    /\ gate # None
    /\ readonly_mode
    /\ gate[1].operation = "D"
    /\ gate[1].user.is_superuser
    /\ "admin" \in gate[1].user.groups
    /\ ~IsNone(permissions)
    /\ "D" \in DOMAIN permissions[1]
    /\ "admin" \in permissions[1]["D"]
    /\ gate[1].result = FALSE

\* C2: with readonly_mode true no request changes the table, and create_post,
\* edit_post and delete_post are never reached.
C2_ReadonlyFreezesTable ==
    [][readonly_mode =>
         /\ objects' = objects
         /\ next_pk' = next_pk
         /\ response' # NoResponse =>
              response'.result[1].handler
                  \notin {"create_post", "edit_post", "delete_post"}]_vars

\* a superuser posts the delete of an existing record and is refused
C2_Witness ==
    /\ readonly_mode
    /\ response # NoResponse
    /\ response.request[1].method = "POST"
    /\ response.request[1].action = "delete"
    /\ response.request[1].user.is_superuser
    /\ PkTruthy(response.request[1].pk)
    /\ response.request[1].pk[1] \in DOMAIN objects
    /\ response.result[1].status = 403

\* C3: a handler runs only if has_crud_permission is true for the operation
\* the handler performs (R for list and detail, C for create, U for edit, D
\* for delete); otherwise the request ends in PermissionDenied.
C3_HandlerOnlyIfPermitted ==
    response # NoResponse =>
        LET user    == response.request[1].user
            handler == response.result[1].handler
            op == CASE handler \in {"list_view", "detail_view"} -> "R"
                    [] handler \in {"create_view", "create_post"} -> "C"
                    [] handler \in {"edit_view", "edit_post"} -> "U"
                    [] OTHER -> "D"
        IN  IF handler = "none" THEN response.result[1].status = 403
            ELSE has_crud_permission(view, user, op)

\* C4: when the operation is not blocked by readonly_mode, the user is not a
\* superuser and the permissions map has a non-empty role list for the
\* operation, the result is True iff one of the user's groups is in the list.
C4_RoleIntersection ==
    gate # None =>
        LET call == gate[1] IN
        ( /\ ~(readonly_mode /\ call.operation \in WriteOps)
          /\ ~call.user.is_superuser
          /\ ~IsNone(permissions)
          /\ call.operation \in DOMAIN permissions[1]
          /\ permissions[1][call.operation] # {} )
        => (call.result <=>
              call.user.groups \cap permissions[1][call.operation] # {})

\* an editor passes a list naming admin and editor
C4_Witness ==
    /\ gate # None
    /\ ~readonly_mode
    /\ ~gate[1].user.is_superuser
    /\ gate[1].user.groups = {"editor"}
    /\ ~IsNone(permissions)
    /\ gate[1].operation \in DOMAIN permissions[1]
    /\ permissions[1][gate[1].operation] = {"admin", "editor"}
    /\ gate[1].result = TRUE

\* C5: when the operation is not blocked by readonly_mode and the permissions
\* map is None or empty, or has no entry or an empty role list for the
\* operation, the result is True for every user.
C5_FailOpen ==
    gate # None =>
        LET call == gate[1] IN
        ( /\ ~(readonly_mode /\ call.operation \in WriteOps)
          /\ \/ IsNone(permissions)
             \/ call.operation \notin DOMAIN permissions[1]
             \/ permissions[1][call.operation] = {} )
        => call.result = TRUE

\* a user without groups passes U although the map restricts D
C5_Witness ==
    /\ gate # None
    /\ ~readonly_mode
    /\ gate[1].operation = "U"
    /\ ~gate[1].user.is_superuser
    /\ gate[1].user.groups = {}
    /\ ~IsNone(permissions)
    /\ DOMAIN permissions[1] = {"D"}
    /\ permissions[1]["D"] = {"admin"}
    /\ gate[1].result = TRUE

\* C6: for a superuser the result is True for every operation and map, except
\* C, U and D under readonly_mode, and does not depend on the groups.
C6_SuperuserBypass ==
    gate # None =>
        LET call == gate[1] IN
        call.user.is_superuser =>
            /\ call.result = ~(readonly_mode /\ call.operation \in WriteOps)
            /\ \A groups \in SUBSET Roles :
                 has_crud_permission(view, [call.user EXCEPT !.groups = groups],
                                     call.operation) = call.result

\* a superuser without groups passes an operation reserved to admin
C6_Witness ==
    /\ gate # None
    /\ ~readonly_mode
    /\ gate[1].user.is_superuser
    /\ gate[1].user.groups = {}
    /\ ~IsNone(permissions)
    /\ gate[1].operation \in DOMAIN permissions[1]
    /\ permissions[1][gate[1].operation] = {"admin"}
    /\ gate[1].result = TRUE

\* C7: for a snapshot with all four flags, every rendered row has the View
\* link iff can_read, the Edit link iff can_update and the Delete link iff
\* can_delete; with all three false the row holds exactly one placeholder
\* and no link.
C7_LinksMatchFlags ==
    (listing # None /\ ~IsNone(listing[1].args.permissions)
       /\ DOMAIN listing[1].args.permissions[1] = SnapshotKeys) =>
        LET flags == listing[1].args.permissions[1]
            rows  == listing[1].result.rows
        IN  \A i \in DOMAIN rows :
              LET cell   == rows[i].actions
                  links  == { j \in DOMAIN cell : cell[j].tag = "a" }
                  labels == { cell[j].label : j \in links }
                  spans  == { j \in DOMAIN cell : cell[j] = NoActions }
              IN  /\ "View" \in labels <=> flags["can_read"]
                  /\ "Edit" \in labels <=> flags["can_update"]
                  /\ "Delete" \in labels <=> flags["can_delete"]
                  /\ labels \subseteq {"View", "Edit", "Delete"}
                  /\ Cardinality(links) = Cardinality(labels)
                  /\ (~flags["can_read"] /\ ~flags["can_update"] /\ ~flags["can_delete"])
                       => (Cardinality(spans) = 1 /\ links = {})

\* two rows rendered with read, update and delete all denied
C7_Witness ==
    /\ listing # None
    /\ listing[1].args.permissions = Some(AllDenied)
    /\ Len(listing[1].result.rows) = 2
    /\ \A i \in 1 .. 2 : listing[1].result.rows[i].actions = << NoActions >>

\* C8: with readonly_mode true the list list_view produces has no Add New
\* link, no Edit link and no Delete link, for every user, map and page.
C8_ReadonlyListHasNoWriteLinks ==
    (readonly_mode /\ response # NoResponse
       /\ response.result[1].handler = "list_view") =>
        LET list == response.result[1].list[1] IN
        /\ list.add_button = << >>
        /\ \A i \in DOMAIN list.rows : \A j \in DOMAIN list.rows[i].actions :
             list.rows[i].actions[j].label \notin {"Add New", "Edit", "Delete"}

\* a superuser lists a non-empty table of a read-only view
C8_Witness ==
    /\ readonly_mode
    /\ response # NoResponse
    /\ response.result[1].handler = "list_view"
    /\ response.request[1].user.is_superuser
    /\ Len(response.result[1].list[1].rows) >= 1
    /\ response.result[1].list[1].rows[1].actions[1].label = "View"

\* C9: with at least one search field and a non-empty query, the records
\* paginated and counted are exactly the records of the query source of which
\* at least one listed field contains the query, case-insensitively; each
\* such record once.
C9_SearchIsUnion ==
    (listing # None /\ ~ListFalsy(listing[1].args.search_fields)
       /\ listing[1].args.search_query # << >>) =>
        LET args   == listing[1].args
            result == listing[1].result
            query  == args.search_query
            listed == { args.search_fields[1][i] : i \in DOMAIN args.search_fields[1] }
            At(text, i) ==
                \A j \in 1 .. Len(query) : LowerChar(text[i + j]) = LowerChar(query[j])
            Matches(obj) ==
                \E field \in listed :
                    \E i \in 0 .. (Len(obj[field]) - Len(query)) : At(obj[field], i)
            matching == SelectSeq(objects_all, Matches)
        IN  /\ result.paginator.object_list = matching
            /\ result.total_count = Len(matching)
            /\ \A i \in DOMAIN result.object_list :
                 result.object_list[i] = matching[result.start_index + i - 1]

\* a search over name and email keeps a record matching both fields and
\* drops a record matching neither
C9_Witness ==
    /\ listing # None
    /\ listing[1].args.search_fields = Some(<<"name", "email">>)
    /\ listing[1].args.search_query = <<"a">>
    /\ Len(objects_all) = 3
    /\ objects_all[1].name = <<"A", "b">> /\ objects_all[1].email = <<"a">>
    /\ objects_all[2].email = << >>
    /\ listing[1].result.total_count = 2
    /\ Len(listing[1].result.object_list) >= 1

\* C10: the pagination of render_list has exactly ceil(N / per_page) pages
\* for every N >= 1 and exactly one, empty, page for N = 0; every page but
\* the last holds per_page records, the last holds the rest, and the pages in
\* order hold every record of the filtered set exactly once.
C10_Pagination ==
    listing # None =>
        LET result == listing[1].result
            pp     == listing[1].args.per_page
            all    == result.paginator.object_list
            N      == Len(all)
            last   == result.num_pages
            pages  == [k \in 1 .. last |-> PaginatorPage(all, pp, k)]
        IN  /\ result.total_count = N
            /\ IF N = 0 THEN last = 1 ELSE (last - 1) * pp < N /\ N <= last * pp
            /\ \A k \in 1 .. last - 1 : Len(pages[k]) = pp
            /\ Len(pages[last]) = N - (last - 1) * pp
            /\ \A i \in 1 .. N :
                 all[i] = pages[((i - 1) \div pp) + 1][((i - 1) % pp) + 1]
            /\ result.object_list = pages[result.number]

\* three records at two per page: the second, last page holds one record
C10_Witness ==
    /\ listing # None
    /\ listing[1].args.per_page = 2
    /\ listing[1].result.total_count = 3
    /\ listing[1].result.num_pages = 2
    /\ listing[1].result.number = 2
    /\ Len(listing[1].result.object_list) = 1

\* C10 as stated: exactly ceil(N / per_page) pages for every N, N = 0
\* included
C10_CeilPagesForEveryN ==
    listing # None =>
        LET result == listing[1].result
            pp     == listing[1].args.per_page
            N      == result.total_count
            last   == result.num_pages
        IN  (last - 1) * pp < N /\ N <= last * pp

\* C11: render_list resolves every requested page to a page of
\* 1 .. total_pages: a page in that range to itself, a page above it to the
\* last page, a page below 1 to the last page as well, and a value that is
\* not an integer to page 1; the page shown holds the records of that page.
C11_PageResolution ==
    listing # None =>
        LET page   == listing[1].args.page
            result == listing[1].result
            last   == result.num_pages
        IN  /\ result.number \in 1 .. last
            /\ IsNone(page) => result.number = 1
            /\ ~IsNone(page) =>
                 result.number = (IF page[1] \in 1 .. last THEN page[1] ELSE last)
            /\ Len(result.object_list) = result.end_index - result.start_index + 1
                \/ result.total_count = 0

\* page 0 of three pages resolves to page 3
C11_Witness ==
    /\ listing # None
    /\ listing[1].args.page = Some(0)
    /\ listing[1].result.num_pages = 3
    /\ listing[1].result.number = 3
    /\ Len(listing[1].result.object_list) = 1

\* C11 as stated: a page below 1 resolves to page 1 and a page above
\* total_pages to the last page
C11_NearestValidPage ==
    (listing # None /\ ~IsNone(listing[1].args.page)) =>
        LET page   == listing[1].args.page[1]
            result == listing[1].result
            last   == result.num_pages
        IN  result.number = (IF page < 1 THEN 1 ELSE IF page > last THEN last ELSE page)

\* C12: the pagination strip is empty when there is one page; otherwise it is
\* Previous, one entry per page 1 .. total_pages in order, Next, where
\* Previous is a disabled non-link exactly on the first page and Next exactly
\* on the last, the entry of the current page is the only non-linked active
\* one and every other page entry links to its page.
C12_PaginationStrip ==
    listing # None =>
        LET result == listing[1].result
            strip  == result.pagination
            last   == result.num_pages
            number == result.number
        IN  IF last <= 1 THEN strip = << >>
            ELSE /\ Len(strip) = last + 2
                 /\ strip[1].label = "Previous" /\ strip[last + 2].label = "Next"
                 /\ (strip[1].tag = "span" /\ strip[1].href = None
                        /\ strip[1].class = "page-item disabled") <=> number = 1
                 /\ number # 1 => (strip[1].tag = "a"
                                     /\ strip[1].href = Some(PageHref(number - 1)))
                 /\ (strip[last + 2].tag = "span" /\ strip[last + 2].href = None
                        /\ strip[last + 2].class = "page-item disabled") <=> number = last
                 /\ number # last => (strip[last + 2].tag = "a"
                                        /\ strip[last + 2].href = Some(PageHref(number + 1)))
                 /\ \A num \in 1 .. last :
                      /\ strip[num + 1].label = ToString(num)
                      /\ IF num = number
                         THEN strip[num + 1].tag = "span" /\ strip[num + 1].href = None
                              /\ strip[num + 1].class = "page-item active"
                         ELSE strip[num + 1].tag = "a"
                              /\ strip[num + 1].href = Some(PageHref(num))

\* the middle page of three: Previous and Next are both links
C12_Witness ==
    /\ listing # None
    /\ listing[1].result.num_pages = 3
    /\ listing[1].result.number = 2
    /\ Len(listing[1].result.pagination) = 5
    /\ listing[1].result.pagination[1].tag = "a"
    /\ listing[1].result.pagination[3].class = "page-item active"
    /\ listing[1].result.pagination[5].tag = "a"

\* C13: when the list is shown for a non-empty search query, following a link
\* of its pagination strip produces a request with the same search query and
\* a page of the same filtered result set.
C13_LinksKeepSearch ==
    [][(response # NoResponse /\ response' # NoResponse
          /\ DictGet(response.request[1].GET, "search", << >>) # << >>) =>
         /\ DictGet(response'.request[1].GET, "search", << >>)
              = DictGet(response.request[1].GET, "search", << >>)
         /\ response'.result[1].list[1].paginator.object_list
              = response.result[1].list[1].paginator.object_list]_vars

\* C14: after a successful create, edit or delete submitted at the URL
\* crud_urlpatterns generates for it, the redirect targets the list URL
\* /{prefix}/ of the collection, whatever the operation and the pk.
C14_RedirectToList ==
    (response # NoResponse /\ response.result[1].status = 302) =>
        /\ response.request[1].path
             = RoutePath(url_prefix, response.request[1].pk, response.request[1].action)
        /\ response.result[1].redirect = Some(ListPath(url_prefix))

\* the closed set of input categories
InputCategories ==
    { "text", "textarea", "email", "url", "number", "checkbox", "date",
      "datetime-local", "time", "file", "select" }

\* C15: get_field_type returns one category of the closed set for every
\* model field, 'text' for a field of no class of the type table, and
\* 'select' for every boolean field with a non-empty choice set.
C15_FieldTypeTotal ==
    typed # None =>
        LET model_field == typed[1].model_field
            result      == typed[1].result
        IN  /\ result \in InputCategories
            /\ (\A cls \in TableClasses : ~isinstance(model_field.cls, cls))
                  => result = "text"
            /\ (isinstance(model_field.cls, "BooleanField")
                  /\ ~IsNone(model_field.choices) /\ model_field.choices[1] # << >>)
                  => result = "select"

\* a boolean field with Yes/No choices that is not named active_client
C15_Witness ==
    /\ typed # None
    /\ typed[1].model_field.cls = "BooleanField"
    /\ typed[1].model_field.name = "field"
    /\ ~IsNone(typed[1].model_field.choices)
    /\ Len(typed[1].model_field.choices[1]) = 2
    /\ typed[1].result = "select"

\* C16: a field of exactly a class of the type table (without choices)
\* resolves to the category the table lists for that class.
C16_TableEntryForExactClass ==
    (typed # None /\ ListFalsy(typed[1].model_field.choices)) =>
        \A i \in DOMAIN field_mapping :
            typed[1].model_field.cls = field_mapping[i][1]
                => typed[1].result = field_mapping[i][2]

\* the three options of the tri-state select, by value and label
TriStateOptions == << <<"", "Choose...">>, <<"True", "Yes">>, <<"False", "No">> >>

\* the rendered controls of the boolean fields named active_client
ActiveClientControls ==
    IF rendered = None THEN {}
    ELSE { rendered[1].result.fields[i] : i \in
             { j \in DOMAIN rendered[1].result.fields :
                 rendered[1].result.fields[j].name = "active_client" } }

\* C17: for every style profile, with or without an instance, the boolean
\* field active_client is rendered as a select with the options unset, Yes
\* and No, whether or not the field declares choices.
C17_ActiveClientTriState ==
    \A control \in ActiveClientControls :
        /\ control.control = "select"
        /\ [i \in DOMAIN control.options |->
              << control.options[i].value, control.options[i].label >>]
             = TriStateOptions

\* C18: in the tri-state select of active_client, Yes is selected iff the
\* instance's value is True, No iff it is False, and neither when the value
\* is None or there is no instance.
C18_PreselectedOption ==
    \A control \in ActiveClientControls :
        (control.control = "select" /\ Len(control.options) = 3) =>
            LET instance == rendered[1].args.instance
                value == IF IsNone(instance) THEN PyNone ELSE instance[1]["active_client"]
            IN  /\ control.options[2].selected <=> value = PyBool(TRUE)
                /\ control.options[3].selected <=> value = PyBool(FALSE)
                /\ ~control.options[1].selected

\* the operation has_crud_permission is asked for an action on a record
ActionOp(action) ==
    CASE action = "view" -> "R" [] action = "edit" -> "U" [] OTHER -> "D"

\* C19: a GET for detail, edit or delete, or a POST for edit or delete, on a
\* pk that matches no stored record, by a user who passes the permission
\* check, ends in the not-found outcome: the table is unchanged, there is no
\* success message and no redirect.
C19_MissingRecordNotFound ==
    [][(response = NoResponse /\ response' # NoResponse
          /\ response'.request[1].action \in {"view", "edit", "delete"}
          /\ (response'.request[1].method = "POST"
                => response'.request[1].action # "view")
          /\ ~IsNone(response'.request[1].pk)
          /\ response'.request[1].pk[1] \notin DOMAIN objects
          /\ has_crud_permission(view, response'.request[1].user,
                                 ActionOp(response'.request[1].action))) =>
         /\ response'.result[1].status = 404
         /\ objects' = objects
         /\ next_pk' = next_pk
         /\ IsNone(response'.result[1].message)
         /\ IsNone(response'.result[1].redirect)]_vars

\* C20: when the form of a create or edit submission is not valid,
\* create_post and edit_post leave the table as it was, emit no success
\* message, issue no redirect and render the form again with its errors.
C20_InvalidFormRerendered ==
    [][(response = NoResponse /\ response' # NoResponse
          /\ ~is_valid(response'.request[1].form)
          /\ \/ response'.result[1].handler = "create_post"
             \/ /\ response'.result[1].handler = "edit_post"
                /\ response'.request[1].pk[1] \in DOMAIN objects) =>
         /\ objects' = objects
         /\ next_pk' = next_pk
         /\ IsNone(response'.result[1].message)
         /\ IsNone(response'.result[1].redirect)
         /\ response'.result[1].status = 200
         /\ response'.result[1].template = "cruder/form.html"
         /\ response'.result[1].errors]_vars

\* an edit of record 1 without a name is answered with the form and its
\* errors, and record 1 keeps its name
C20_Witness ==
    /\ response # NoResponse
    /\ response.result[1].handler = "edit_post"
    /\ response.request[1].pk = Some(1)
    /\ response.request[1].form.name = << >>
    /\ response.result[1].status = 200
    /\ response.result[1].errors
    /\ 1 \in DOMAIN objects
    /\ objects[1].name # << >>

\* the text of a value of each kind, with none_text for None
Formatted(read, none_text) ==
    CASE read.kind = "str" -> read.text
      [] read.kind = "datetime" -> read.text
      [] read.kind = "bool" -> IF read.flag THEN <<"Y", "e", "s">> ELSE <<"N", "o">>
      [] OTHER -> none_text

\* C21 as stated: in the list row and in the detail entries alike, every
\* shown field yields exactly one cell or entry, a field whose value cannot
\* be read or formatted is rendered as '-', and the other fields are
\* rendered normally.
C21_PlaceholderInListAndDetail ==
    shown # None =>
        LET fields == shown[1].fields
            row    == shown[1].row
            data   == shown[1].fields_data
            Broken(read) ==
                Raised(read) \/ (read.kind = "datetime" /\ ~read.flag)
        IN  /\ Len(row) = Len(fields)
            /\ Len(data) = Len(fields)
            /\ \A i \in 1 .. Len(fields) :
                 IF Broken(fields[i].read)
                 THEN row[i] = <<"-">> /\ data[i].value = <<"-">>
                 ELSE /\ row[i] = Formatted(fields[i].read, <<"-">>)
                      /\ data[i].name = fields[i].name
                      /\ data[i].value
                           = Formatted(fields[i].read,
                                       <<"N", "o", "t", " ", "s", "e", "t">>)

\* C21 (amended): in the list row every shown field yields exactly one cell,
\* a field whose value cannot be read or formatted is rendered as '-' and the
\* other fields are rendered normally.  In the detail entries no error is
\* propagated either, but no '-' is shown: a field whose attribute is missing
\* is shown as 'Not set', as a None value is; a field whose read raises
\* another error or whose value cannot be formatted is left out; the other
\* fields are rendered normally, in order.
C21_PlaceholderInListOnly ==
    shown # None =>
        LET fields == shown[1].fields
            row    == shown[1].row
            data   == shown[1].fields_data
            Broken(read) ==
                Raised(read) \/ (read.kind = "datetime" /\ ~read.flag)
            kept   == SelectSeq(fields, LAMBDA field :
                                   ~Broken(field.read)
                                   \/ field.read.kind = "AttributeError")
        IN  /\ Len(row) = Len(fields)
            /\ \A i \in 1 .. Len(fields) :
                 row[i] = IF Broken(fields[i].read) THEN <<"-">>
                          ELSE Formatted(fields[i].read, <<"-">>)
            /\ Len(data) = Len(kept)
            /\ \A j \in 1 .. Len(kept) :
                 /\ data[j].name = kept[j].name
                 /\ data[j].value
                      = Formatted(kept[j].read,
                                  <<"N", "o", "t", " ", "s", "e", "t">>)

\* a record with a readable first field, a second field whose read raises and
\* a third whose attribute is missing: three cells, two of them '-', and two
\* entries, the second 'Not set'
C21_Witness ==
    /\ shown # None
    /\ shown[1].fields[1].read.kind = "str"
    /\ shown[1].fields[2].read.kind = "Exception"
    /\ shown[1].fields[3].read.kind = "AttributeError"
    /\ Len(shown[1].row) = 3
    /\ shown[1].row[2] = <<"-">>
    /\ shown[1].row[3] = <<"-">>
    /\ Len(shown[1].fields_data) = 2
    /\ shown[1].fields_data[2].name = "created_at"
    /\ shown[1].fields_data[2].value = <<"N", "o", "t", " ", "s", "e", "t">>

\* C22: get_framework returns a style profile class for every name: the
\* profile registered under a registered name ('bootstrap' and 'bootstrap5'
\* give BootstrapFramework, 'bulma' gives BulmaFramework), and
\* BootstrapFramework for every other name, the empty string and None
\* included.
C22_GetFrameworkTotal ==
    framework # None =>
        LET name   == framework[1].name
            result == framework[1].result
        IN  /\ result \in {"BootstrapFramework", "BulmaFramework"}
            /\ name \in {Some("bootstrap"), Some("bootstrap5")}
                 => result = "BootstrapFramework"
            /\ name = Some("bulma") => result = "BulmaFramework"
            /\ name \notin {Some("bootstrap"), Some("bootstrap5"), Some("bulma")}
                 => result = "BootstrapFramework"

\* get_framework(None) gave the default profile
C22_Witness ==
    /\ framework # None
    /\ IsNone(framework[1].name)
    /\ framework[1].result = "BootstrapFramework"

\* C23: a GET request leaves the table as it was; a record leaves the table
\* only in a POST with action 'delete' for its pk by a user who passes the D
\* check; and a permitted GET on the delete endpoint of a stored record
\* answers with the confirmation page.
C23_GetWritesNothing ==
    [][(response = NoResponse /\ response' # NoResponse) =>
         LET request == response'.request[1]
             result  == response'.result[1]
         IN  /\ request.method = "GET" =>
                  objects' = objects /\ next_pk' = next_pk
             /\ \A pk \in DOMAIN objects \ DOMAIN objects' :
                  /\ request.method = "POST"
                  /\ request.action = "delete"
                  /\ request.pk = Some(pk)
                  /\ has_crud_permission(view, request.user, "D")
             /\ (/\ request.method = "GET"
                 /\ request.action = "delete"
                 /\ PkTruthy(request.pk)
                 /\ request.pk[1] \in DOMAIN objects
                 /\ has_crud_permission(view, request.user, "D")) =>
                  /\ result.status = 200
                  /\ result.template = "cruder/delete.html"
                  /\ IsNone(result.redirect)
                  /\ IsNone(result.message)]_vars

\* the GET on the delete endpoint of record 1 was answered with the
\* confirmation page, and record 1 is still stored
C23_Witness ==
    /\ response # NoResponse
    /\ response.request[1].method = "GET"
    /\ response.request[1].action = "delete"
    /\ response.request[1].pk = Some(1)
    /\ response.result[1].handler = "delete_view"
    /\ response.result[1].template = "cruder/delete.html"
    /\ 1 \in DOMAIN objects

\* C24: a record is created only by a POST routed through the create
\* endpoint /{prefix}/create/; a POST to the list endpoint /{prefix}/, which
\* passes no action, creates no record.
C24_CreatedOnlyThroughCreateEndpoint ==
    [][(response = NoResponse /\ response' # NoResponse) =>
         LET request == response'.request[1] IN
         /\ (DOMAIN objects' \ DOMAIN objects # {} \/ next_pk' # next_pk) =>
              /\ request.method = "POST"
              /\ request.path = ListPath(url_prefix) \o <<"create", "/">>
         /\ (/\ request.method = "POST"
             /\ request.action = NoAction
             /\ request.path = ListPath(url_prefix)) =>
              objects' = objects /\ next_pk' = next_pk]_vars

\* C25 as stated: in every result of render_list, N (total_count) is the
\* number of records that pass the search filter, X <= Y <= N for the summary
\* 'Showing X-Y of N items', and the page has Y - X + 1 data rows, an empty
\* result set included.
C25_SummaryMatchesRows ==
    listing # None =>
        LET args   == listing[1].args
            result == listing[1].result
            query  == args.search_query
            listed ==
                IF ~ListFalsy(args.search_fields)
                THEN { args.search_fields[1][i] : i \in DOMAIN args.search_fields[1] }
                ELSE IF ~IsNone(args.search_field) THEN { args.search_field[1] }
                ELSE {}
            At(text, i) ==
                \A j \in 1 .. Len(query) : LowerChar(text[i + j]) = LowerChar(query[j])
            Passes(k) ==
                \/ listed = {} \/ query = << >>
                \/ \E field \in listed :
                     \E i \in 0 .. (Len(objects_all[k][field]) - Len(query)) :
                        At(objects_all[k][field], i)
            N == result.total_count
            X == result.start_index
            Y == result.end_index
        IN  /\ N = Cardinality({ k \in DOMAIN objects_all : Passes(k) })
            /\ X <= Y
            /\ Y <= N
            /\ Len(result.rows) = Y - X + 1

\* C25 (amended): in every result of render_list, N (total_count) is the
\* number of records that pass the search filter and X <= Y <= N; for a
\* result set that is not empty the page has Y - X + 1 data rows; for an empty
\* result set the summary reads 0-0 of 0 and the page has no data row.
C25_SummaryMatchesRowsUnlessEmpty ==
    listing # None =>
        LET args   == listing[1].args
            result == listing[1].result
            query  == args.search_query
            listed ==
                IF ~ListFalsy(args.search_fields)
                THEN { args.search_fields[1][i] : i \in DOMAIN args.search_fields[1] }
                ELSE IF ~IsNone(args.search_field) THEN { args.search_field[1] }
                ELSE {}
            At(text, i) ==
                \A j \in 1 .. Len(query) : LowerChar(text[i + j]) = LowerChar(query[j])
            Passes(k) ==
                \/ listed = {} \/ query = << >>
                \/ \E field \in listed :
                     \E i \in 0 .. (Len(objects_all[k][field]) - Len(query)) :
                        At(objects_all[k][field], i)
            N == result.total_count
            X == result.start_index
            Y == result.end_index
        IN  /\ N = Cardinality({ k \in DOMAIN objects_all : Passes(k) })
            /\ X <= Y
            /\ Y <= N
            /\ N > 0 => Len(result.rows) = Y - X + 1
            /\ N = 0 => X = 0 /\ Y = 0 /\ Len(result.rows) = 0

\* three records, two of them with an 'a' in the email: a search of the email
\* for 'a' with two records per page shows 1-2 of 2 in two rows
C25_Witness ==
    /\ listing # None
    /\ Len(objects_all) = 3
    /\ listing[1].args.search_field = Some("email")
    /\ IsNone(listing[1].args.search_fields)
    /\ listing[1].args.search_query = <<"a">>
    /\ listing[1].result.total_count = 2
    /\ listing[1].result.start_index = 1
    /\ listing[1].result.end_index = 2
    /\ Len(listing[1].result.rows) = 2

\* C26: a request for the view, edit or delete action with a pk by a user
\* whom has_crud_permission denies the action's operation is answered with
\* the access denial and nothing else, whether or not a record with that pk
\* is stored: the answer does not depend on the table.
C26_DeniedWhateverIsStored ==
    [][(response = NoResponse /\ response' # NoResponse
          /\ response'.request[1].action \in {"view", "edit", "delete"}
          /\ (response'.request[1].method = "POST"
                => response'.request[1].action # "view")
          /\ ~IsNone(response'.request[1].pk)
          /\ ~has_crud_permission(view, response'.request[1].user,
                                  ActionOp(response'.request[1].action))) =>
         /\ response'.result[1].status = 403
         /\ response'.result[1].handler = "none"
         /\ IsNone(response'.result[1].list)
         /\ objects' = objects]_vars

\* C27: in every list produced by list_view, the Add New link is shown if
\* and only if a GET for the create action by the same user is not refused
\* by the permission check of get, and in every row the View, Edit and Delete
\* links are shown if and only if the GET for the view, edit and delete action
\* of that row's record by the same user is not refused.
C27_ListAgreesWithGate ==
    (response # NoResponse /\ response.result[1].handler = "list_view") =>
        LET user == response.request[1].user
            list == response.result[1].list[1]
            Probe(pk, action) ==
                [method |-> "GET", user |-> user, pk |-> pk, action |-> action,
                 path |-> RoutePath(url_prefix, pk, action),
                 GET |-> QueryDict(None, None), form |-> EmptyForm]
            Passes(pk, action) == get(Probe(pk, action)).status # 403
            LinkActions ==
                { [label |-> "View", action |-> "view"],
                  [label |-> "Edit", action |-> "edit"],
                  [label |-> "Delete", action |-> "delete"] }
        IN  /\ (list.add_button # << >>) <=> Passes(None, "create")
            /\ \A i \in DOMAIN list.rows : \A link \in LinkActions :
                 (\E j \in DOMAIN list.rows[i].actions :
                     list.rows[i].actions[j].label = link.label)
                 <=> Passes(Some(list.rows[i].pk), link.action)

\* a list for a user who may read and delete but not update: its first row
\* shows View and Delete and no Edit, and no Add New is shown
C27_Witness ==
    /\ response # NoResponse
    /\ response.result[1].handler = "list_view"
    /\ ~readonly_mode
    /\ has_crud_permission(view, response.request[1].user, "R")
    /\ ~has_crud_permission(view, response.request[1].user, "U")
    /\ ~has_crud_permission(view, response.request[1].user, "C")
    /\ has_crud_permission(view, response.request[1].user, "D")
    /\ Len(response.result[1].list[1].rows) >= 1
    /\ Len(response.result[1].list[1].rows[1].actions) = 2
    /\ response.result[1].list[1].rows[1].actions[2].label = "Delete"
    /\ response.result[1].list[1].add_button = << >>


====
